---- MODULE Spec2Model ----
(***************************************************************************)
(* Model of outlook_opener.py: the identity generator                      *)
(* (generate_mexican_email) and the signup flow of main() with its form    *)
(* fillers.  Text is modelled as sequences of characters, each character   *)
(* a string ("a", " ", or a name such as "<e-acute>" for a character       *)
(* outside ASCII), so that strip, split, the character filter, lower-casing*)
(* and substring search are computed the way Python's str methods do.      *)
(***************************************************************************)
EXTENDS Integers, Sequences, FiniteSets, TLC

\* ------------------------------------------------------------------ bounds
\* Longest completion text enumerated by the generator specification.
MaxLen == 4
\* Counters of loop iterations are counted up to this value and saturate.
MaxCount == 2
\* Largest number of alert elements on the page.
MaxAlerts == 2
\* Largest number of option elements a dropdown offers.
MaxOptions == 2

\* --------------------------------------------------------- program constants
STATUS_OK == 200
RAND_LO == 100
RAND_HI == 999
YEAR_LO == 1990
YEAR_HI == 2002

\* ------------------------------------------------------------- characters
UpperLetters == <<"A","B","C","D","E","F","G","H","I","J","K","L","M",
                  "N","O","P","Q","R","S","T","U","V","W","X","Y","Z">>
LowerLetters == <<"a","b","c","d","e","f","g","h","i","j","k","l","m",
                  "n","o","p","q","r","s","t","u","v","w","x","y","z">>
DigitChars == <<"0","1","2","3","4","5","6","7","8","9">>

Range(s) == {s[i] : i \in DOMAIN s}

\* Letters and digits outside ASCII, which str.isalnum() accepts as well.
NonAsciiUpper == <<"<E-acute>", "<N-tilde>">>
NonAsciiLower == <<"<e-acute>", "<n-tilde>">>
NonAsciiDigits == {"<arabic-3>"}

AsciiHandleChars == Range(UpperLetters) \cup Range(LowerLetters) \cup Range(DigitChars) \cup {"_"}

\* str.isalnum() of one character.
IsAlnum(ch) ==
    \/ ch \in Range(UpperLetters) \cup Range(LowerLetters) \cup Range(DigitChars)
    \/ ch \in Range(NonAsciiUpper) \cup Range(NonAsciiLower) \cup NonAsciiDigits

\* Whitespace as str.strip() and str.split() see it.
IsSpace(ch) == ch \in {" ", "\t", "\n"}

\* str.lower() of one character.
LowerChar(ch) ==
    IF \E i \in DOMAIN UpperLetters : UpperLetters[i] = ch
    THEN LowerLetters[CHOOSE i \in DOMAIN UpperLetters : UpperLetters[i] = ch]
    ELSE IF \E i \in DOMAIN NonAsciiUpper : NonAsciiUpper[i] = ch
    THEN NonAsciiLower[CHOOSE i \in DOMAIN NonAsciiUpper : NonAsciiUpper[i] = ch]
    ELSE ch

\* ---------------------------------------------------------------- strings
\* str.lower()
Lower(s) == [i \in 1..Len(s) |-> LowerChar(s[i])]

\* Index of the first character of s at or after i that is no whitespace
\* (Len(s) + 1 when there is none).
RECURSIVE SkipSpaces(_, _)
SkipSpaces(s, i) ==
    IF i > Len(s) \/ ~IsSpace(s[i]) THEN i ELSE SkipSpaces(s, i + 1)

\* Index of the last character of s at or before i that is no whitespace
\* (0 when there is none).
RECURSIVE SkipSpacesBack(_, _)
SkipSpacesBack(s, i) ==
    IF i < 1 \/ ~IsSpace(s[i]) THEN i ELSE SkipSpacesBack(s, i - 1)

\* str.strip(): drops the leading and the trailing whitespace.
Strip(s) == SubSeq(s, SkipSpaces(s, 1), SkipSpacesBack(s, Len(s)))

\* Whether `sub` occurs at position i of s.
OccursAt(s, sub, i) ==
    /\ i >= 1
    /\ i + Len(sub) - 1 <= Len(s)
    /\ \A k \in 1..Len(sub) : s[i + k - 1] = sub[k]

\* `sub in s`
Contains(s, sub) == \E i \in 1..(Len(s) + 1) : OccursAt(s, sub, i)

\* Position of the first occurrence of sub in s at or after i (0 when there
\* is none).
RECURSIVE FindFrom(_, _, _)
FindFrom(s, sub, i) ==
    IF i + Len(sub) - 1 > Len(s) THEN 0
    ELSE IF OccursAt(s, sub, i) THEN i
    ELSE FindFrom(s, sub, i + 1)

\* Position of the first occurrence of sub in s (0 when there is none).
Find(s, sub) == FindFrom(s, sub, 1)

\* Index of the first whitespace character of s at or after i (Len(s) + 1
\* when there is none).
RECURSIVE SkipToSpace(_, _)
SkipToSpace(s, i) ==
    IF i > Len(s) \/ IsSpace(s[i]) THEN i ELSE SkipToSpace(s, i + 1)

\* str.split(): the maximal runs of non-whitespace characters, in order.
RECURSIVE Split(_)
Split(s) ==
    LET lo == SkipSpaces(s, 1)
    IN  IF lo > Len(s) THEN <<>>
        ELSE LET hi == SkipToSpace(s, lo)
             IN  <<SubSeq(s, lo, hi - 1)>> \o Split(SubSeq(s, hi, Len(s)))

\* sep.join(parts)
RECURSIVE Join(_, _)
Join(parts, sep) ==
    IF parts = <<>> THEN <<>>
    ELSE IF Len(parts) = 1 THEN parts[1]
    ELSE parts[1] \o sep \o Join(Tail(parts), sep)

\* str(n) of a natural number: its decimal digits.
RECURSIVE IntToStr(_)
IntToStr(n) ==
    IF n < 10 THEN <<DigitChars[n + 1]>>
    ELSE IntToStr(n \div 10) \o <<DigitChars[(n % 10) + 1]>>

\* All strings over the characters cs of length at most n.
RECURSIVE StringsUpTo(_, _)
StringsUpTo(cs, n) ==
    IF n = 0 THEN {<<>>}
    ELSE LET shorter == StringsUpTo(cs, n - 1)
         IN  shorter \cup {Append(s, c) : s \in shorter, c \in cs}

\* ------------------------------------------------------- identity generator
ARROW == <<"-", ">">>
DefaultFirst == <<"C","a","r","l","o","s">>
DefaultLast == <<"R","a","m","i","r","e","z">>

\* A value for a variable that has not been assigned.
None == <<"<none>">>

\* StatusOK as a generator that took every 2xx status for a success would
\* have it.
StatusOK_Any2xx(st) == st \in 200..299

\* `resp.status_code != 200` is the failure test of generate_mexican_email.
StatusOK(st) == st = STATUS_OK

\* name of lines 61-68: the text before the first "->", stripped, or the
\* fixed default name.
GenName(c) ==
    LET content == Strip(c)
        at == Find(content, ARROW)
    IN  IF at > 0
        THEN Strip(SubSeq(content, 1, at - 1))
        ELSE DefaultFirst \o <<" ">> \o DefaultLast

\* handle of lines 61-69, before the character filter: the text after the
\* first "->", stripped, or first_last_<n> of the default name.
GenRawHandle(c, n) ==
    LET content == Strip(c)
        at == Find(content, ARROW)
    IN  IF at > 0
        THEN Strip(SubSeq(content, at + Len(ARROW), Len(content)))
        ELSE Lower(DefaultFirst) \o <<"_">> \o Lower(DefaultLast) \o <<"_">> \o IntToStr(n)

\* The test of the filter of line 71.
KeepInHandle(ch) == IsAlnum(ch) \/ ch = "_"

\* A filter that takes out the first character that fails the test, and
\* no other.
Sanitize_FirstOnly(h) ==
    LET bad == {i \in 1..Len(h) : ~KeepInHandle(h[i])}
    IN  IF bad = {}
        THEN h
        ELSE LET k == CHOOSE i \in bad : \A j \in bad : i <= j
             IN  SubSeq(h, 1, k - 1) \o SubSeq(h, k + 1, Len(h))

\* Line 71: "".join(ch for ch in handle if ch.isalnum() or ch == "_")
Sanitize(h) == SelectSeq(h, KeepInHandle)

GenHandle(c, n) == Sanitize(GenRawHandle(c, n))

\* ------------------------------------------------------------ environment
\* Status codes the text-generation service answers with.
Statuses == {200, 201, 204, 301, 404, 429, 500}

\* Values random.randint(100, 999) returns: the two ends of the range.
RandDraws == {RAND_LO, RAND_HI}

\* A draw that can go one past the upper end.
YearDraws_PastEnd == YEAR_LO .. (YEAR_HI + 1)

\* Values random.randint(1990, 2002) returns: both ends are included.
YearDraws == YEAR_LO .. YEAR_HI

\* Completion texts the service returns in the signup flow.
Completions == {
    <<"C","a","r","l","o","s"," ","R","a","m","i","r","e","z"," ","-",">"," ",
      "c","a","r","l","o","s","_","r","a","m","i","r","e","z","_","4","1","7">>,
    <<"A","n","a"," ","L","o","p","e","z">>,
    <<"L","u","i","s"," ","-",">"," ">>,
    <<"-",">"," ","x","_","1">>,
    <<"J","o","s","<e-acute>"," ","-",">"," ","j","o","s","<e-acute>","_","1","!">>,
    <<" ","E","v","a","\t","D","e"," ","L","a"," ","O","-",">","e","v","a",".","o","_","2","2"," ">>,
    <<"M","a","x"," ","-",">"," ","m","a","x","_","9">> }

\* Characters of the completion texts the generator specification enumerates.
GenChars == {"a", "_", "7", " ", "-", ">", "<e-acute>", "!"}
AllCompletions == StringsUpTo(GenChars, MaxLen)

\* Texts of the alert elements of the page.
AlertTexts == {
    <<"a","l">>,
    <<"r","e","a","d","y">>,
    <<" ","i","s"," ","a","l","r","e","a","d","y"," ">> }
ALREADY == <<"a","l","r","e","a","d","y">>

AlertElements == [text : AlertTexts, visible : BOOLEAN]
RECURSIVE ListsUpTo(_, _)
ListsUpTo(S, n) ==
    IF n = 0 THEN {<<>>}
    ELSE LET shorter == ListsUpTo(S, n - 1)
         IN  shorter \cup {Append(l, e) : l \in shorter, e \in S}
AlertLists == ListsUpTo(AlertElements, MaxAlerts)

\* ------------------------------------------------------------------ state
VARIABLES
    pc,            \* position of main(): the step to run next
    err,           \* the exception that ended the run ("none" while running)
    raisedAt,      \* the step that raised it
    browserOpen,   \* the browser of line 175 is open
    out,           \* the lines printed by the step just taken
    status,        \* resp.status_code of the last service call (0: none)
    completion,    \* the completion text of the last service call
    name,          \* name of main(), the display name generated last
    handle,        \* handle of main(), the handle generated last
    callsSinceAttempt, \* calls of generate_mexican_email that returned since
                   \* the last call of try_fill_email (counted up to MaxCount)
    typedHandle,   \* text typed into the handle field by the last attempt
    emailField,    \* the texts in the handle field of the page, in the order
                   \* they were typed (of the attempts before the last conflict
                   \* only the last one's text is kept)
    reloads,       \* page.goto(SIGNUP_URL) of line 203 so far
    alerts,        \* the alert elements read at lines 207-212
    alert_text,    \* alert_text of main()
    conflicts,     \* "Email taken" iterations so far
    first_name,    \* first_name of main()
    last_name,     \* last_name of main()
    password,      \* password of main()
    derived,       \* executions of line 220 so far
    typedPassword, \* text typed into the password field
    options,       \* visibility of the option elements the last selection saw
    pick,          \* index (from 0) of the option it chose (-1: none)
    monthOpens,    \* clicks that opened the month dropdown so far
    dayOpens,      \* clicks that opened the day dropdown so far
    monthOptClicks,\* clicks on a month option so far
    dayOptClicks,  \* clicks on a day option so far
    year,          \* year of fill_birthdate (0: none)
    typedYear,     \* text typed into the year field
    success,       \* fill_birthdate's local: what line 144 returned
    yearTypings,   \* times a year was typed so far
    birthAdvances, \* clicks of line 157 so far
    typedFirst,    \* text typed into the first name field
    typedLast,     \* text typed into the last name field
    nameSubmitted, \* the click of line 167 has been made
    challengeSeen  \* the challenge marker was found at line 232

ctl == <<pc, err, raisedAt, browserOpen>>
gen == <<status, completion, name, handle, callsSinceAttempt>>
hand == <<typedHandle, emailField, reloads, alerts, alert_text, conflicts>>
cred == <<first_name, last_name, password, derived, typedPassword>>
birth == <<options, pick, monthOpens, dayOpens, monthOptClicks, dayOptClicks, year, typedYear,
          success, yearTypings, birthAdvances>>
rest == <<typedFirst, typedLast, nameSubmitted, challengeSeen>>
vars == <<ctl, out, gen, hand, cred, birth, rest>>

\* n + 1, counted up to MaxCount.
Inc(n) == IF n < MaxCount THEN n + 1 ELSE MaxCount

\* The step continues at p.
Goto(p) == pc' = p /\ UNCHANGED <<err, raisedAt, browserOpen>>

\* An exception nobody catches leaves main(): the with-block of line 174
\* ends and the run is over.  (The locals of the function that raised are
\* gone with its frame.)
Raise(e, at) ==
    /\ pc' = "aborted"
    /\ err' = e
    /\ raisedAt' = at
    /\ browserOpen' = FALSE

Init ==
    /\ pc = "start"
    /\ err = "none"
    /\ raisedAt = "none"
    /\ browserOpen = FALSE
    /\ out = <<>>
    /\ status = 0
    /\ completion = None
    /\ name = None
    /\ handle = None
    /\ callsSinceAttempt = 0
    /\ typedHandle = None
    /\ emailField = <<>>
    /\ reloads = 0
    /\ alerts = <<>>
    /\ alert_text = None
    /\ conflicts = 0
    /\ first_name = None
    /\ last_name = None
    /\ password = None
    /\ derived = 0
    /\ typedPassword = None
    /\ options = <<>>
    /\ pick = -1
    /\ monthOpens = 0
    /\ dayOpens = 0
    /\ monthOptClicks = 0
    /\ dayOptClicks = 0
    /\ year = 0
    /\ typedYear = None
    /\ success = "unset"
    /\ yearTypings = 0
    /\ birthAdvances = 0
    /\ typedFirst = None
    /\ typedLast = None
    /\ nameSubmitted = FALSE
    /\ challengeSeen = FALSE

\* Lines 15-19 and 174-193: the secret is read, the browser is launched and
\* the signup page is opened.
Startup ==
    /\ pc = "start"
    /\ \E keyPresent \in BOOLEAN :
        IF ~keyPresent
        THEN /\ pc' = "aborted"
             /\ err' = "MissingKey"
             /\ raisedAt' = "start"
             /\ UNCHANGED browserOpen
        ELSE /\ pc' = "generate"
             /\ browserOpen' = TRUE
             /\ UNCHANGED <<err, raisedAt>>
    /\ out' = <<>>
    /\ UNCHANGED <<gen, hand, cred, birth, rest>>

\* Line 196, generate_mexican_email (34-72), with the completion drawn from S.
\* random.randint is called on the fallback branch only (line 69).
GenerateFrom(S) ==
    /\ pc = "generate"
    /\ \/ \E st \in Statuses :
            /\ ~StatusOK(st)
            /\ status' = st
            /\ Raise("GroqApiError", "generate")
            /\ out' = <<>>
            /\ completion' = None
            /\ UNCHANGED <<name, handle, callsSinceAttempt>>
       \/ \E st \in Statuses, c \in S :
            /\ StatusOK(st)
            /\ status' = st
            /\ completion' = c
            /\ callsSinceAttempt' = Inc(callsSinceAttempt)
            /\ name' = GenName(c)
            /\ \E n \in (IF Contains(Strip(c), ARROW) THEN {RAND_LO} ELSE RandDraws) :
                  handle' = GenHandle(c, n)
            /\ out' = <<"Generated Name", "Generated Handle">>
            /\ Goto("try_fill_email")
    /\ alerts' = <<>>
    /\ alert_text' = None
    /\ UNCHANGED <<typedHandle, emailField, reloads, conflicts, cred, birth, rest>>

Generate == GenerateFrom(Completions)

\* ReloadAndContinue with a cap on the reloads: the second timeout ends the
\* run.
ReloadCapped ==
    /\ out' = <<"Timeout, retrying...">>
    /\ reloads' = Inc(reloads)
    /\ emailField' = <<>>
    /\ IF reloads >= 1
       THEN Raise("PlaywrightTimeoutError", "try_fill_email")
       ELSE Goto("generate")

\* ReloadAndContinue that tries the same Identity again after the reload.
ReloadSameIdentity ==
    /\ out' = <<"Timeout, retrying...">>
    /\ reloads' = Inc(reloads)
    /\ emailField' = <<>>
    /\ Goto("try_fill_email")

\* Lines 201-204: the handler of a timeout of try_fill_email reloads the
\* signup page, whose handle field is empty, and starts the loop body again.
ReloadAndContinue ==
    /\ out' = <<"Timeout, retrying...">>
    /\ reloads' = Inc(reloads)
    /\ emailField' = <<>>
    /\ Goto("generate")

\* Lines 199-204, try_fill_email (76-79) and human_type (25-30): the field
\* is clicked and the handle is inserted character by character; nothing
\* clears the field first.
TryFillEmail ==
    /\ pc = "try_fill_email"
    /\ callsSinceAttempt' = 0
    /\ \E outcome \in {"wait_timeout", "click_timeout", "button_timeout", "ok"} :
        /\ typedHandle' = IF outcome \in {"button_timeout", "ok"} THEN handle ELSE None
        /\ IF outcome = "ok"
           THEN /\ out' = <<>>
                /\ emailField' = Append(emailField, handle)
                /\ Goto("check_alerts")
                /\ UNCHANGED reloads
           ELSE ReloadAndContinue
    /\ status' = 0
    /\ completion' = None
    /\ UNCHANGED <<name, handle, alerts, alert_text, conflicts, cred, birth, rest>>

\* Lines 208-212: the stripped texts of the visible alert elements, joined
\* by one space.
RECURSIVE VisibleTexts(_)
VisibleTexts(als) ==
    IF als = <<>> THEN <<>>
    ELSE (IF Head(als).visible THEN <<Strip(Head(als).text)>> ELSE <<>>)
         \o VisibleTexts(Tail(als))

\* AlertText without the is_visible() test of line 211.
AlertText_AllElements(als) ==
    Join([i \in 1..Len(als) |-> Strip(als[i].text)], <<" ">>)

AlertText(als) == Join(VisibleTexts(als), <<" ">>)

\* AfterAlerts with a cap on the conflicts: the second conflict ends the run.
AfterAlerts_Capped(text) ==
    IF Contains(text, ALREADY)
    THEN /\ out' = <<"Email taken, retrying...">>
         /\ conflicts' = Inc(conflicts)
         /\ emailField' = SubSeq(emailField, Len(emailField), Len(emailField))
         /\ IF conflicts >= 1
            THEN Raise("HandleSpaceExhausted", "check_alerts")
            ELSE Goto("generate")
    ELSE /\ out' = <<"Email accepted.">>
         /\ emailField' = <<>>
         /\ UNCHANGED conflicts
         /\ Goto("derive")

\* Lines 213-217: a conflict starts the loop body again, on the same page
\* with the text still in its handle field; anything else leaves the loop
\* (and the page has left the handle screen).
AfterAlerts(text) ==
    IF Contains(text, ALREADY)
    THEN /\ out' = <<"Email taken, retrying...">>
         /\ conflicts' = Inc(conflicts)
         /\ emailField' = SubSeq(emailField, Len(emailField), Len(emailField))
         /\ Goto("generate")
    ELSE /\ out' = <<"Email accepted.">>
         /\ emailField' = <<>>
         /\ UNCHANGED conflicts
         /\ Goto("derive")

\* Lines 206-217.
CheckAlerts ==
    /\ pc = "check_alerts"
    /\ \E als \in AlertLists :
        /\ alerts' = als
        /\ alert_text' = AlertText(als)
        /\ AfterAlerts(AlertText(als))
    /\ UNCHANGED <<gen, typedHandle, reloads, cred, birth, rest>>

\* DerivePassword without the lower() of line 220.
DerivePassword_NoLower(first) == first \o <<"@","1","2","3","4","5">>

\* Line 220.
DerivePassword(first) == Lower(first) \o <<"@","1","2","3","4","5">>

\* Lines 219-221: name.split()[0] and name.split()[-1] raise IndexError when
\* the name has no token.
Derive ==
    /\ pc = "derive"
    /\ LET tokens == Split(name)
       IN  IF tokens = <<>>
           THEN /\ Raise("IndexError", "derive")
                /\ out' = <<>>
                /\ UNCHANGED <<first_name, last_name, password, derived>>
           ELSE /\ first_name' = tokens[1]
                /\ last_name' = tokens[Len(tokens)]
                /\ password' = DerivePassword(tokens[1])
                /\ derived' = Inc(derived)
                /\ out' = <<"Generated Password">>
                /\ Goto("fill_password")
    /\ alerts' = <<>>
    /\ alert_text' = None
    /\ UNCHANGED <<gen, typedHandle, emailField, reloads, conflicts, typedPassword, birth, rest>>

\* Line 222, fill_password (82-85): no timeout is caught.
FillPassword ==
    /\ pc = "fill_password"
    /\ \E outcome \in {"wait_timeout", "click_timeout", "button_timeout", "ok"} :
        /\ typedPassword' = IF outcome \in {"button_timeout", "ok"} THEN password ELSE None
        /\ IF outcome = "ok"
           THEN Goto("select_month")
           ELSE Raise("PlaywrightTimeoutError", "fill_password")
    /\ out' = <<>>
    /\ UNCHANGED <<gen, hand, first_name, last_name, password, derived, birth, rest>>

\* ------------------------------------------------------------- birthdate
OptionLists == ListsUpTo(BOOLEAN, MaxOptions)

\* random.choice over range(total), whether visible or not.
PickChoices_AnyOption(opts) == 0..(Len(opts) - 1)

\* Lines 103-104 and 134-135: the indices random.choice draws from.
PickChoices(opts) ==
    LET visible_indices == {i \in 0..(Len(opts) - 1) : opts[i + 1]}
    IN  IF visible_indices = {} THEN {0} ELSE visible_indices

\* select_month (111-139), called at line 144 (onFalse = the retry of line
\* 147) and at line 147 (onFalse = on to line 149).
SelectMonthCall(at, onFalse) ==
    /\ pc = at
    /\ LET warnFailed == IF onFalse = "select_month_retry"
                         THEN <<"[warn] Month selection failed, retrying...">> ELSE <<>>
           warnRetry == <<"[warn] Month options did not appear, retrying click...">>
           \* 144 keeps the result in success, 147 drops it
           Return(v) == IF at = "select_month" THEN success' = v ELSE UNCHANGED success
       IN
       \/ \* 113-119: the expand icon could not be scrolled to or clicked
          /\ out' = <<"[warn] Could not click month expand icon">> \o warnFailed
          /\ Goto(onFalse)
          /\ Return("False")
          /\ options' = <<>>
          /\ pick' = -1
          /\ UNCHANGED <<monthOpens, monthOptClicks>>
       \/ \* 121-126: the options did not appear after the click, and the
          \* retried click or the wait after it times out inside the handler
          /\ \E retryOK \in BOOLEAN :
                monthOpens' = monthOpens + (IF retryOK THEN 2 ELSE 1)
          /\ out' = warnRetry
          /\ Raise("PlaywrightTimeoutError", at)
          /\ options' = <<>>
          /\ pick' = -1
          /\ UNCHANGED <<monthOptClicks, success>>
       \/ \* the options appeared, after the click or after the retried click
          \E retried, optClickOK \in BOOLEAN, opts \in OptionLists :
             /\ monthOpens' = monthOpens + (IF retried THEN 2 ELSE 1)
             /\ IF opts = <<>>
                THEN \* 128-132: no option element is left to count
                     /\ out' = (IF retried THEN warnRetry ELSE <<>>)
                               \o <<"[error] No months available to select.">> \o warnFailed
                     /\ Goto(onFalse)
                     /\ Return("False")
                     /\ options' = opts
                     /\ pick' = -1
                     /\ UNCHANGED monthOptClicks
                ELSE \* 134-139: an option is chosen and clicked
                     IF optClickOK
                     THEN /\ options' = opts
                          /\ \E p \in PickChoices(opts) : pick' = p
                          /\ out' = (IF retried THEN warnRetry ELSE <<>>) \o <<"Selected month">>
                          /\ monthOptClicks' = monthOptClicks + 1
                          /\ Goto("before_day")
                          /\ Return("True")
                     ELSE /\ options' = <<>>
                          /\ pick' = -1
                          /\ out' = IF retried THEN warnRetry ELSE <<>>
                          /\ Raise("PlaywrightTimeoutError", at)
                          /\ UNCHANGED <<monthOptClicks, success>>
    /\ UNCHANGED <<gen, hand, cred, dayOpens, dayOptClicks, year, typedYear,
                   yearTypings, birthAdvances, rest>>

\* fill_birthdate without the second call of lines 145-147.
SelectMonth_NoRetry == SelectMonthCall("select_month", "before_day")

\* Line 144.
SelectMonth == SelectMonthCall("select_month", "select_month_retry")

\* Line 147.
SelectMonthRetry == SelectMonthCall("select_month_retry", "before_day")

\* fill_birthdate calling select_month a second time whatever the first
\* call returned.
BeforeDay_MonthAgain ==
    /\ pc = "before_day"
    /\ IF success = "True"
       THEN /\ Goto("select_month_retry")
            /\ out' = <<>>
            /\ success' = "False"
       ELSE /\ Goto("select_day")
            /\ out' = <<"Selecting birth day...">>
            /\ success' = "unset"
    /\ options' = <<>>
    /\ pick' = -1
    /\ UNCHANGED <<gen, hand, cred, monthOpens, dayOpens, monthOptClicks, dayOptClicks,
                   year, typedYear, yearTypings, birthAdvances, rest>>

\* Lines 149-150: select_month has returned and its locals are gone;
\* success is not read again.
BeforeDay ==
    /\ pc = "before_day"
    /\ Goto("select_day")
    /\ out' = <<"Selecting birth day...">>
    /\ options' = <<>>
    /\ pick' = -1
    /\ success' = "unset"
    /\ UNCHANGED <<gen, hand, cred, monthOpens, dayOpens, monthOptClicks, dayOptClicks,
                   year, typedYear, yearTypings, birthAdvances, rest>>

\* Line 151, select_random_option_from_combobox (88-108) on the day
\* dropdown; its result is not looked at.
SelectDay ==
    /\ pc = "select_day"
    /\ \/ \* 89-94: the combobox could not be scrolled to or clicked
          /\ out' = <<"[warn] Could not click #BirthDayDropdown">>
          /\ Goto("before_year")
          /\ options' = <<>>
          /\ pick' = -1
          /\ UNCHANGED <<dayOpens, dayOptClicks>>
       \/ \* 97: the options do not appear
          /\ out' = <<>>
          /\ Raise("PlaywrightTimeoutError", "select_day")
          /\ options' = <<>>
          /\ pick' = -1
          /\ dayOpens' = dayOpens + 1
          /\ UNCHANGED dayOptClicks
       \/ \* the options appeared
          \E optClickOK \in BOOLEAN, opts \in OptionLists :
             /\ dayOpens' = dayOpens + 1
             /\ IF opts = <<>>
                THEN \* 98-101: no option element is left to count
                     /\ out' = <<>>
                     /\ Goto("before_year")
                     /\ options' = opts
                     /\ pick' = -1
                     /\ UNCHANGED dayOptClicks
                ELSE \* 103-108: an option is chosen and clicked
                     IF optClickOK
                     THEN /\ options' = opts
                          /\ \E p \in PickChoices(opts) : pick' = p
                          /\ out' = <<"Selected">>
                          /\ dayOptClicks' = dayOptClicks + 1
                          /\ Goto("before_year")
                     ELSE /\ options' = <<>>
                          /\ pick' = -1
                          /\ out' = <<>>
                          /\ Raise("PlaywrightTimeoutError", "select_day")
                          /\ UNCHANGED dayOptClicks
    /\ UNCHANGED <<gen, hand, cred, monthOpens, monthOptClicks, year, typedYear,
                   success, yearTypings, birthAdvances, rest>>

\* Line 153: select_random_option_from_combobox has returned and its locals
\* are gone.
BeforeYear ==
    /\ pc = "before_year"
    /\ Goto("type_year")
    /\ out' = <<>>
    /\ options' = <<>>
    /\ pick' = -1
    /\ UNCHANGED <<gen, hand, cred, monthOpens, dayOpens, monthOptClicks, dayOptClicks,
                   year, typedYear, success, yearTypings, birthAdvances, rest>>

\* Lines 154-157: the year is drawn and typed, and the form is advanced.
TypeYear ==
    /\ pc = "type_year"
    /\ \E y \in YearDraws, outcome \in {"click_timeout", "button_timeout", "ok"} :
        /\ year' = y
        /\ typedYear' = IF outcome = "click_timeout" THEN None ELSE IntToStr(y)
        /\ yearTypings' = IF outcome = "click_timeout" THEN yearTypings ELSE Inc(yearTypings)
        /\ birthAdvances' = IF outcome = "ok" THEN Inc(birthAdvances) ELSE birthAdvances
        /\ IF outcome = "ok"
           THEN Goto("fill_first_last_name")
           ELSE Raise("PlaywrightTimeoutError", "type_year")
    /\ out' = <<"Typing year">>
    /\ UNCHANGED <<gen, hand, cred, options, pick, monthOpens, dayOpens, monthOptClicks,
                   dayOptClicks, success, rest>>

\* ------------------------------------------------------ name and challenge
\* fill_first_last_name without the try of lines 161-169: a timeout leaves
\* the function and main().
FillFirstLastName_Uncaught ==
    /\ pc = "fill_first_last_name"
    /\ \E outcome \in {"wait_timeout", "first_click_timeout", "last_click_timeout",
                       "button_timeout", "ok"} :
        /\ typedFirst' = IF outcome \in {"last_click_timeout", "button_timeout", "ok"}
                         THEN first_name ELSE None
        /\ typedLast' = IF outcome \in {"button_timeout", "ok"} THEN last_name ELSE None
        /\ nameSubmitted' = (outcome = "ok")
        /\ out' = IF outcome \in {"button_timeout", "ok"} THEN <<"Filled first name">> ELSE <<>>
        /\ IF outcome = "ok"
           THEN Goto("captcha")
           ELSE Raise("PlaywrightTimeoutError", "fill_first_last_name")
    /\ year' = 0
    /\ typedYear' = None
    /\ UNCHANGED <<gen, hand, cred, options, pick, monthOpens, dayOpens,
                   monthOptClicks, dayOptClicks, success, yearTypings, birthAdvances,
                   challengeSeen>>

\* Line 228, fill_first_last_name (160-169): every timeout is caught.
FillFirstLastName ==
    /\ pc = "fill_first_last_name"
    /\ \E outcome \in {"wait_timeout", "first_click_timeout", "last_click_timeout",
                       "button_timeout", "ok"} :
        /\ typedFirst' = IF outcome \in {"last_click_timeout", "button_timeout", "ok"}
                         THEN first_name ELSE None
        /\ typedLast' = IF outcome \in {"button_timeout", "ok"} THEN last_name ELSE None
        /\ nameSubmitted' = (outcome = "ok")
        /\ out' = (IF outcome \in {"button_timeout", "ok"} THEN <<"Filled first name">> ELSE <<>>)
                  \o (IF outcome = "ok" THEN <<>>
                      ELSE <<"[error] Could not find first/last name inputs.">>)
    /\ Goto("captcha")
    /\ year' = 0
    /\ typedYear' = None
    /\ UNCHANGED <<gen, hand, cred, options, pick, monthOpens, dayOpens,
                   monthOptClicks, dayOptClicks, success, yearTypings, birthAdvances,
                   challengeSeen>>

\* CaptchaCheck without the page.pause() of line 234.
CaptchaCheck_NoPause ==
    /\ pc = "captcha"
    /\ \E found \in BOOLEAN :
        /\ challengeSeen' = found
        /\ out' = IF found THEN <<"Captcha loaded! Solve manually.">>
                  ELSE <<"Captcha not detected.">>
        /\ Goto("input")
    /\ UNCHANGED <<gen, hand, cred, birth, typedFirst, typedLast, nameSubmitted>>

\* Lines 231-236: the marker is waited for; when it is found the run is
\* handed to the operator (page.pause()).
CaptchaCheck ==
    /\ pc = "captcha"
    /\ \E found \in BOOLEAN :
        /\ challengeSeen' = found
        /\ IF found
           THEN /\ out' = <<"Captcha loaded! Solve manually.">>
                /\ Goto("paused")
           ELSE /\ out' = <<"Captcha not detected.">>
                /\ Goto("input")
    /\ UNCHANGED <<gen, hand, cred, birth, typedFirst, typedLast, nameSubmitted>>

\* Resume going back to the wait of line 232 instead of on to line 238.
Resume_Recheck ==
    /\ pc = "paused"
    /\ Goto("captcha")
    /\ out' = <<>>
    /\ UNCHANGED <<gen, hand, cred, birth, rest>>

\* Line 234 returns: the operator resumes the run.
Resume ==
    /\ pc = "paused"
    /\ Goto("input")
    /\ out' = <<>>
    /\ UNCHANGED <<gen, hand, cred, birth, rest>>

\* Lines 238-239: the operator presses Enter and the browser is closed.
PressEnter ==
    /\ pc = "input"
    /\ pc' = "done"
    /\ browserOpen' = FALSE
    /\ out' = <<>>
    /\ UNCHANGED <<err, raisedAt, gen, hand, cred, birth, rest>>

Next ==
    \/ Startup
    \/ Generate
    \/ TryFillEmail
    \/ CheckAlerts
    \/ Derive
    \/ FillPassword
    \/ SelectMonth
    \/ SelectMonthRetry
    \/ BeforeDay
    \/ SelectDay
    \/ BeforeYear
    \/ TypeYear
    \/ FillFirstLastName
    \/ CaptchaCheck
    \/ Resume
    \/ PressEnter

Spec == Init /\ [][Next]_vars

\* ------------------------------------------------ generator specification
\* The generator alone, applied to every completion text of AllCompletions.
GenerateAny == GenerateFrom(AllCompletions)

NextGen ==
    \/ Startup
    \/ GenerateAny

SpecGen == Init /\ [][NextGen]_vars

\* ------------------------------------------------------------------ claims
\* The positions of the HandleEntry state: the loop of lines 195-217.
HandleEntryPcs == {"generate", "try_fill_email", "check_alerts"}

\* Some visible alert element read at lines 207-212 has "already" in its text.
VisibleAlready(als) ==
    \E i \in DOMAIN als : als[i].visible /\ Contains(als[i].text, ALREADY)

\* C1: after a handle was submitted, the controller goes back to the identity
\* generator exactly when a visible alert element has "already" in its text,
\* and on to the password derivation otherwise; alert elements that are not
\* visible play no part.
C1_ConflictDecidesAdvance ==
    [][pc = "check_alerts" /\ pc' # pc =>
          /\ VisibleAlready(alerts') => pc' = "generate"
          /\ ~VisibleAlready(alerts') => pc' = "derive"
          /\ Contains(alert_text', ALREADY) <=> VisibleAlready(alerts')]_vars

\* A conflict was found although an alert element that is not visible was
\* on the page too.
C1_Witness ==
    /\ pc = "generate"
    /\ conflicts > 0
    /\ VisibleAlready(alerts)
    /\ \E i \in DOMAIN alerts : ~alerts[i].visible

\* C2: no timeout of a wait-for-element or click ends the run abnormally.
C2_NoTimeoutEndsTheRun ==
    ~(pc = "aborted" /\ err = "PlaywrightTimeoutError")

\* C3: whenever the generator returns, the handle is non-empty and made of
\* characters of [a-zA-Z0-9_] only.
C3_HandleWellFormed ==
    pc = "try_fill_email" =>
        /\ handle # <<>>
        /\ \A i \in DOMAIN handle : handle[i] \in AsciiHandleChars

\* C4 as claimed: the generator raises exactly when the status is no 2xx
\* status.
C4_RaisesUnless2xx ==
    /\ raisedAt = "generate" => status \notin 200..299
    /\ pc = "try_fill_email" => status \in 200..299

\* C4, amended: the generator raises the upstream error exactly when the
\* status is not 200, and returns an Identity when it is 200; once it has
\* raised, the run is over and nothing more is typed.
C4_RaisesUnless200 ==
    [][/\ pc = "generate" /\ pc' # pc =>
            \/ status' = 200 /\ pc' = "try_fill_email" /\ err' = "none"
            \/ /\ status' # 200
               /\ pc' = "aborted"
               /\ err' = "GroqApiError"
               /\ UNCHANGED <<typedHandle, typedPassword, typedYear, typedFirst, typedLast>>
       /\ pc = "aborted" => UNCHANGED vars]_vars

\* The generator raised on a 2xx status other than 200.
C4_Witness ==
    /\ pc = "aborted"
    /\ err = "GroqApiError"
    /\ status \in 201..299

CarlosRamirez == <<"C","a","r","l","o","s"," ","R","a","m","i","r","e","z">>

\* C5: the password typed is lower(first token of the display name generated
\* last) + "@12345"; it is computed at most once, and only once the handle
\* was accepted; the name "Carlos Ramirez" gives "carlos@12345".
C5_PasswordFromAcceptedName ==
    /\ derived <= 1
    /\ pc \in HandleEntryPcs \cup {"derive"} => derived = 0 /\ password = None
    /\ typedPassword # None =>
          /\ typedPassword = password
          /\ Split(name) # <<>>
          /\ typedPassword = Lower(Split(name)[1]) \o <<"@","1","2","3","4","5">>
          /\ name = CarlosRamirez =>
                typedPassword = <<"c","a","r","l","o","s","@","1","2","3","4","5">>

\* The password of "Carlos Ramirez" was typed after an earlier Identity was
\* discarded.
C5_Witness ==
    /\ typedPassword = <<"c","a","r","l","o","s","@","1","2","3","4","5">>
    /\ conflicts > 0
    /\ reloads > 0

\* C6: a completion with "->" gives the text after the first "->", trimmed
\* and without the characters outside [A-Za-z0-9_], as handle and the trimmed
\* text before it as name; one without "->" gives the default name and a
\* handle carlos_ramirez_<n>, n in 100..999.
C6_ParsedAsClaimed ==
    pc = "try_fill_email" =>
        LET c == completion
            at == Find(c, ARROW)
        IN  IF at > 0
            THEN /\ name = Strip(SubSeq(c, 1, at - 1))
                 /\ handle = SelectSeq(Strip(SubSeq(c, at + 2, Len(c))),
                                       LAMBDA ch : ch \in AsciiHandleChars)
            ELSE /\ name = CarlosRamirez
                 /\ \E n \in 100..999 :
                       handle = <<"c","a","r","l","o","s","_","r","a","m","i","r","e","z","_">>
                                \o IntToStr(n)

\* C7: neither the month nor the day selection ever raises, and neither
\* dropdown is opened by more than two clicks.
C7_RetryOnceThenSkip ==
    /\ raisedAt \notin {"select_month", "select_month_retry", "select_day"}
    /\ monthOpens <= 2
    /\ dayOpens <= 2

C10_FreshIdentityPerAttempt ==
    [][pc = "try_fill_email" /\ pc' # pc =>
          /\ callsSinceAttempt = 1
          /\ status = 200
          /\ name = GenName(completion)
          /\ \E n \in RandDraws : handle = GenHandle(completion, n)
          /\ typedHandle' \in {handle, None}
          /\ pc' = "check_alerts" => typedHandle' = handle]_vars

\* A handle was typed and submitted after a conflict and after a reload.
C10_Witness ==
    /\ pc = "check_alerts"
    /\ typedHandle = handle
    /\ conflicts > 0
    /\ reloads > 0


\* ------------------------------------------------------------------- C11
\* The places of main() in the order of its lines, the end by an exception
\* last.
PcSeq ==
    <<"start", "generate", "try_fill_email", "check_alerts", "derive", "fill_password",
      "select_month", "select_month_retry", "before_day", "select_day", "before_year",
      "type_year", "fill_first_last_name", "captcha", "paused", "input", "done", "aborted">>

PcOrder(p) == CHOOSE i \in 1..Len(PcSeq) : PcSeq[i] = p

\* The step of the flow a place belongs to: 1 HandleEntry (195-217),
\* 2 PasswordEntry (219-222), 3 BirthdateEntry (225), 4 NameEntry (228),
\* 5 ChallengeCheck (231-236), 6 Terminal (238-239).
StepOf(p) ==
    CASE p = "start" -> 0
      [] p \in HandleEntryPcs -> 1
      [] p \in {"derive", "fill_password"} -> 2
      [] p \in {"select_month", "select_month_retry", "before_day", "select_day",
                "before_year", "type_year"} -> 3
      [] p = "fill_first_last_name" -> 4
      [] p \in {"captcha", "paused"} -> 5
      [] p \in {"input", "done"} -> 6
      [] p = "aborted" -> 7

\* C11: the steps run in the order HandleEntry, PasswordEntry,
\* BirthdateEntry, NameEntry, ChallengeCheck, Terminal: the controller never
\* moves to an earlier step and skips none, no place outside HandleEntry is
\* come back to, PasswordEntry is entered only from the alert check of an
\* attempt whose alert text shows no conflict, and the password is typed
\* only there, after that.
C11_StepsInOrder ==
    [][/\ pc' # pc =>
            /\ StepOf(pc') >= StepOf(pc)
            /\ pc' # "aborted" => StepOf(pc') <= StepOf(pc) + 1
            /\ pc \notin HandleEntryPcs => PcOrder(pc') > PcOrder(pc)
       /\ (StepOf(pc) < 2 /\ StepOf(pc') = 2) =>
            /\ pc = "check_alerts"
            /\ typedHandle = handle
            /\ ~Contains(alert_text', ALREADY)
       /\ typedPassword' # typedPassword => pc = "fill_password"
       /\ StepOf(pc') < 2 => typedPassword' = None]_vars

\* A run that repeated HandleEntry after a conflict and after a reload and
\* then went through every later step to the end.
C11_Witness ==
    /\ pc = "done"
    /\ conflicts > 0
    /\ reloads > 0
    /\ typedPassword # None
    /\ yearTypings = 1


\* ------------------------------------------------------------------- C12
NameInputsError == "[error] Could not find first/last name inputs."

\* C12: the name step always hands over to the challenge check, with no
\* exception and the browser open; when it did not get as far as the click
\* of line 167 it has printed the error line (and only then); and the name
\* fields are typed into by this one step only, once.
C12_NameStepNeverAborts ==
    [][/\ (pc = "fill_first_last_name" /\ pc' # pc) =>
            /\ pc' = "captcha"
            /\ err' = err
            /\ browserOpen'
            /\ ~nameSubmitted' <=> NameInputsError \in Range(out')
            /\ (typedFirst' = None \/ typedLast' = None) => ~nameSubmitted'
       /\ (typedFirst' # typedFirst \/ typedLast' # typedLast) =>
            /\ pc = "fill_first_last_name"
            /\ typedFirst = None /\ typedLast = None]_vars

\* The name inputs did not appear: nothing was typed, the error was
\* printed, and the run went on to its end.
C12_Witness ==
    /\ pc = "done"
    /\ typedFirst = None
    /\ typedLast = None
    /\ ~nameSubmitted
    /\ err = "none"


\* ------------------------------------------------------------------- C13
\* C13: the challenge check hands the run to the operator when the marker
\* was found and only prints its warning when it was not; the only step
\* out of the pause is to the final prompt, and the only step out of the
\* challenge check without a pause is to the final prompt too; from the
\* challenge check on no exception ends the run, and the browser is closed
\* by nothing but the step that follows the operator's Enter at the final
\* prompt.
C13_PauseThenTerminal ==
    [][/\ (pc = "captcha" /\ pc' # pc) =>
           /\ challengeSeen' => pc' = "paused"
           /\ ~challengeSeen' =>
                 pc' = "input" /\ out' = <<"Captcha not detected.">>
       /\ (pc = "paused" /\ pc' # pc) => pc' = "input"
       /\ StepOf(pc) \in {5, 6} =>
           /\ err' = "none"
           /\ browserOpen' # browserOpen => pc = "input" /\ pc' = "done"]_vars

\* A run in which the marker was found, the operator resumed and then
\* pressed Enter, and the browser was closed.
C13_Witness ==
    /\ pc = "done"
    /\ challengeSeen
    /\ ~browserOpen
    /\ err = "none"


\* ------------------------------------------------------------------- C14
\* Index p is a choice the claim allows among the options opts (TRUE =
\* visible): a visible one when there is one, index 0 when there is none.
AllowedPick(opts, p) ==
    /\ opts # <<>>
    /\ p \in 0..(Len(opts) - 1)
    /\ (\E i \in 1..Len(opts) : opts[i]) => opts[p + 1]
    /\ (\A i \in 1..Len(opts) : ~opts[i]) => p = 0

\* C14: every click of a month option and every click of a day option is
\* on a visible option of the list just counted when the list has one, and
\* on the option at index 0 when it has none.
C14_ClicksVisibleElseFirst ==
    [][(monthOptClicks' # monthOptClicks \/ dayOptClicks' # dayOptClicks)
          => AllowedPick(options', pick')]_vars

\* A day option was clicked after a month option: the list had an
\* invisible option before the visible one that was clicked.
C14_Witness ==
    /\ pc = "before_year"
    /\ monthOptClicks = 1
    /\ dayOptClicks = 1
    /\ options = <<FALSE, TRUE>>
    /\ pick = 1

\* A month option was clicked in a list with no visible option.
C14_WitnessNoneVisible ==
    /\ pc = "before_day"
    /\ monthOptClicks = 1
    /\ options = <<FALSE, FALSE>>
    /\ pick = 0


\* ------------------------------------------------------------------- C15
MonthRetryWarning == "[warn] Month selection failed, retrying..."

ClickRetryWarning == "[warn] Month options did not appear, retrying click..."

\* C15: when the expand click of the first select_month call times out, the
\* call is answered by a warning and a second call, with no error; a second
\* call that clicks an option, and a call (first or second) that clicks an
\* option after its retried click, end with an allowed option clicked, the
\* warning of the failure in the output, no error, and the day selection
\* next.
C15_OneFailureThenSelected ==
    [][/\ (pc = "select_month" /\ pc' # pc /\ monthOpens' = monthOpens) =>
           /\ pc' = "select_month_retry"
           /\ err' = "none"
           /\ browserOpen'
           /\ MonthRetryWarning \in Range(out')
           /\ monthOptClicks' = monthOptClicks
       /\ (pc = "select_month_retry" /\ monthOptClicks' # monthOptClicks) =>
           /\ monthOptClicks = 0 /\ monthOptClicks' = 1
           /\ AllowedPick(options', pick')
           /\ pc' = "before_day"
           /\ err' = "none"
       /\ (pc \in {"select_month", "select_month_retry"}
              /\ monthOpens' = monthOpens + 2 /\ monthOptClicks' # monthOptClicks) =>
           /\ monthOptClicks' = 1
           /\ AllowedPick(options', pick')
           /\ ClickRetryWarning \in Range(out')
           /\ pc' = "before_day"
           /\ err' = "none"
       /\ (pc = "before_day" /\ pc' # pc) => pc' = "select_day" /\ err' = "none"]_vars

\* The first call returned False without opening the list, and the second
\* call opened it once and clicked a month option.
C15_Witness ==
    /\ pc = "before_day"
    /\ success = "False"
    /\ monthOpens = 1
    /\ monthOptClicks = 1
    /\ pick # -1
    /\ err = "none"

\* The options did not appear after the first click of the first call, and
\* after its retried click a month option was clicked.
C15_WitnessClickRetried ==
    /\ pc = "before_day"
    /\ success = "True"
    /\ monthOpens = 2
    /\ monthOptClicks = 1
    /\ out = <<ClickRetryWarning, "Selected month">>


\* ------------------------------------------------------------------- C16
\* C16: the filter of line 71 leaves what it has filtered as it is: the
\* handle the generator returned is its own filtered text, and so is the
\* filtered text of the whole completion, whatever the completion is.
C16_SanitizeIdempotent ==
    pc = "try_fill_email" =>
        /\ Sanitize(handle) = handle
        /\ Sanitize(Sanitize(completion)) = Sanitize(completion)

\* The generator returned a handle from which the filter had taken out a
\* character and kept one.
C16_Witness ==
    /\ pc = "try_fill_email"
    /\ completion = <<"-", ">", "!", "a">>
    /\ handle = <<"a">>


\* ------------------------------------------------------------------- C17
\* C17: the text typed into the year field is the decimal text of the year
\* drawn, and that year is an integer from 1990 to 2002, both included.
C17_YearInRange ==
    typedYear # None =>
        /\ year \in 1990..2002
        /\ typedYear = IntToStr(year)
        /\ Len(typedYear) = 4
        /\ \A i \in 1..Len(typedYear) : typedYear[i] \in Range(DigitChars)

\* The year field was reached and the last year of the range was typed.
C17_Witness ==
    /\ pc = "fill_first_last_name"
    /\ yearTypings = 1
    /\ typedYear = <<"2", "0", "0", "2">>


\* ------------------------------------------------------------------- C18
\* The content of the handle field: the texts inserted at the caret one
\* after the other (human_type, 25-30), the caret taken to be at the end.
FieldText ==
    IF emailField = <<>> THEN <<>>
    ELSE IF Len(emailField) = 1 THEN emailField[1]
    ELSE emailField[1] \o emailField[2]

\* C18: whenever the form has been advanced in HandleEntry, the handle
\* field holds the handle of the attempt and nothing else.
C18_FieldHoldsCandidateAlone ==
    pc = "check_alerts" => FieldText = handle

\* The attempt after a conflict: the field holds the handle of the attempt
\* before, followed by the handle of this one.
C18_FieldHoldsBoth ==
    /\ pc = "check_alerts"
    /\ conflicts = 1
    /\ reloads = 0
    /\ Len(emailField) = 2
    /\ emailField[1] # <<>>
    /\ emailField[2] = handle
    /\ FieldText # handle


\* ------------------------------------------------------------------- C19
\* C19: after a handle has been accepted the name has a token, first and
\* last name are derived from it without an error, first name = last name
\* when it has one token only, and PasswordEntry starts.
C19_DerivationDefined ==
    [][(pc = "derive" /\ pc' # pc) =>
          /\ Split(name) # <<>>
          /\ pc' = "fill_password"
          /\ err' = "none"
          /\ first_name' = Split(name)[1]
          /\ Len(Split(name)) = 1 => last_name' = first_name']_vars

\* The run ended at line 219: the accepted Identity had a name with no
\* token.
C19_NoTokenEndsTheRun ==
    /\ pc = "aborted"
    /\ err = "IndexError"
    /\ raisedAt = "derive"
    /\ Split(name) = <<>>
    /\ typedHandle = handle
    /\ handle # <<>>


\* ------------------------------------------------------------------- C20
\* C20: at most one month option and one day option are clicked, the
\* second select_month call is reached only with no month option clicked,
\* the year is typed and the form advanced at most once, by the one step
\* after the day selection, and from then on no dropdown is opened and no
\* option clicked.
C20_OneOfEach ==
    [][/\ monthOptClicks' <= 1
       /\ dayOptClicks' <= 1
       /\ yearTypings' <= 1
       /\ birthAdvances' <= yearTypings'
       /\ pc' = "select_month_retry" => monthOptClicks' = 0 /\ success' = "False"
       /\ (yearTypings' # yearTypings \/ birthAdvances' # birthAdvances) =>
             /\ pc = "type_year"
             /\ UNCHANGED <<monthOpens, monthOptClicks, dayOpens, dayOptClicks>>
       /\ (pc = "type_year" \/ yearTypings > 0) =>
             UNCHANGED <<monthOpens, monthOptClicks, dayOpens, dayOptClicks>>]_vars

\* BirthdateEntry went through with two month attempts: one month option,
\* one day option, one year, one advance.
C20_Witness ==
    /\ pc = "fill_first_last_name"
    /\ monthOpens = 3
    /\ monthOptClicks = 1
    /\ dayOptClicks = 1
    /\ yearTypings = 1
    /\ birthAdvances = 1

====
